---- MODULE Spec2Model ----
(***************************************************************************)
(* Elliptic-curve points over a prime field (ec_cryptography/src/lib.rs):  *)
(* construction with the on-curve check, the group law `+`, double-and-add *)
(* scalar multiplication, and the signature verification equation of       *)
(* test_secp_signature_verfication, run on small curves.                   *)
(***************************************************************************)
EXTENDS Integers, Sequences, FiniteSets, TLC

\* ------------------------------------------------------------------ bounds
\* Field primes of the curves points are built and added on: the primes up to
\* MaxPrime.
MaxPrime == 10
\* Field primes of the curves scalar_mul runs on: the primes up to MaxMulPrime.
MaxMulPrime == 7
\* Scalars handed to scalar_mul: 0..MaxScalar.
MaxScalar == 14
\* Field primes of the secp-shaped curves (a = 0, b = 7) used for signatures.
MaxSecpPrime == 16

\* ------------------------------------------------ Option<T>, panics, rug
None == <<>>
Some(v) == <<v>>
is_none(o) == o = <<>>
unwrap(o) == o[1]

\* A panic (failed assert!, unwrap() of None) or a propagated error.
Panic(msg) == [panic |-> msg]
IsPanic(v) == "panic" \in DOMAIN v

\* rug's rem_euc: the remainder is never negative.
rem_euc(v, m) == v % m

\* ------------------------------------------- finite_fields::FieldElement
DivisionByZero == Panic("DivisionByZero")

FieldElement(value, prime) == [num |-> rem_euc(value, prime), prime |-> prime]

FeAdd(f, g) == FieldElement(f.num + g.num, f.prime)

FeMul(f, g) == FieldElement(f.num * g.num, f.prime)

RECURSIVE ModPow(_, _, _)
ModPow(base, exponent, m) ==
    IF exponent = 0 THEN 1 % m
    ELSE LET half == ModPow(base, exponent \div 2, m)
         IN IF exponent % 2 = 0 THEN (half * half) % m
            ELSE (((half * half) % m) * base) % m

FePow(f, exponent) == Some(FieldElement(ModPow(f.num, exponent, f.prime), f.prime))

\* inverse(): value^(prime-2) mod prime; DivisionByZero when value == 0.
FeInverse(f) ==
    IF f.num = 0 THEN DivisionByZero
    ELSE FieldElement(ModPow(f.num, f.prime - 2, f.prime), f.prime)

\* div(other): self * other.inverse(), propagating DivisionByZero.
FeDiv(f, g) ==
    IF IsPanic(FeInverse(g)) THEN FeInverse(g) ELSE FeMul(f, FeInverse(g))

\* --------------------------------------------------------- EllipticCurve
\* The struct literal EllipticCurve { x, y, a, b }.
EllipticCurve(x, y, a, b) == [x |-> x, y |-> y, a |-> a, b |-> b]

prime(self) == self.a.prime

\* Mutant: the right-hand side squares x where the curve equation cubes it.
is_valid_square(self) ==
    IF is_none(self.x) \/ is_none(self.y) THEN TRUE
    ELSE unwrap(FePow(unwrap(self.y), 2))
            = FeAdd(FeAdd(unwrap(FePow(unwrap(self.x), 2)),
                          FeMul(self.a, unwrap(self.x))),
                    self.b)

is_valid(self) ==
    IF is_none(self.x) \/ is_none(self.y) THEN TRUE
    ELSE unwrap(FePow(unwrap(self.y), 2))
            = FeAdd(FeAdd(unwrap(FePow(unwrap(self.x), 3)),
                          FeMul(self.a, unwrap(self.x))),
                    self.b)

new(x, y, a, b) ==
    IF is_none(x) /\ is_none(y) THEN EllipticCurve(None, None, a, b)
    ELSE IF is_valid(EllipticCurve(x, y, a, b)) THEN EllipticCurve(x, y, a, b)
    ELSE Panic("Point is not on the curve")

slope(self, other) ==
    IF is_none(self.x) /\ is_none(other.x) THEN None
    ELSE IF is_none(other.y) \/ is_none(self.y) \/ is_none(other.x) \/ is_none(self.x)
    THEN Some(Panic("unwrap on None"))
    ELSE LET numerator == rem_euc(unwrap(other.y).num - unwrap(self.y).num, prime(self))
             denominator == rem_euc(unwrap(other.x).num - unwrap(self.x).num, prime(self))
         IN Some(FeDiv(FieldElement(numerator, prime(self)),
                       FieldElement(denominator, prime(self))))

\* The denominator tangent_slope divides by.
tangent_denominator(self) == rem_euc(2 * unwrap(self.y).num, prime(self))

tangent_slope(self) ==
    IF is_none(self.x) THEN None
    ELSE IF is_none(self.y) THEN Some(Panic("unwrap on None"))
    ELSE LET x_pow == rem_euc(unwrap(self.x).num * unwrap(self.x).num, prime(self))
             numerator == rem_euc(rem_euc(3 * x_pow, prime(self)) + self.a.num, prime(self))
             denominator == tangent_denominator(self)
         IN Some(FeDiv(FieldElement(numerator, prime(self)),
                       FieldElement(denominator, prime(self))))

identity(self) == new(None, None, self.a, self.b)

\* impl PartialEq: x, y, a and b all equal.
eq(self, other) ==
    self.x = other.x /\ self.y = other.y /\ self.a = other.a /\ self.b = other.b

\* Mutant: y3 with its sign flipped (y1 - slope*(x1 - x3)).
add_chord_negated(self, other) ==
    LET s == unwrap(slope(self, other))
    IN IF IsPanic(s) THEN s
       ELSE LET x1 == unwrap(self.x).num
                x2 == unwrap(other.x).num
                y1 == unwrap(self.y).num
                x3 == rem_euc(unwrap(FePow(s, 2)).num - x1 - x2, prime(self))
                y3 == rem_euc(y1 - rem_euc(s.num * (x1 - x3), prime(self)), prime(self))
            IN new(Some(FieldElement(x3, prime(self))),
                   Some(FieldElement(y3, prime(self))), self.a, self.b)

\* The x1 != x2 branch of add.
add_chord(self, other) ==
    LET s == unwrap(slope(self, other))
    IN IF IsPanic(s) THEN s
       ELSE LET x1 == unwrap(self.x).num
                x2 == unwrap(other.x).num
                y1 == unwrap(self.y).num
                x3 == rem_euc(unwrap(FePow(s, 2)).num - x1 - x2, prime(self))
                y3 == rem_euc(rem_euc(s.num * (x1 - x3), prime(self)) - y1, prime(self))
            IN new(Some(FieldElement(x3, prime(self))),
                   Some(FieldElement(y3, prime(self))), self.a, self.b)

\* Mutant: the y == 0 test before the tangent slope is missing.
add_tangent_unchecked(self) ==
    IF is_none(self.y) THEN Panic("unwrap on None")
    ELSE LET s == unwrap(tangent_slope(self))
         IN IF IsPanic(s) THEN s
            ELSE LET x1 == unwrap(self.x).num
                     y1 == unwrap(self.y).num
                     x3 == rem_euc(rem_euc(s.num * s.num, prime(self))
                                     - rem_euc(2 * x1, prime(self)), prime(self))
                     y3 == rem_euc(rem_euc(s.num * (x1 - x3), prime(self)) - y1,
                                   prime(self))
                 IN new(Some(FieldElement(x3, prime(self))),
                        Some(FieldElement(y3, prime(self))), self.a, self.b)

\* The self == other branch of add.
add_tangent(self) ==
    IF is_none(self.y) THEN Panic("unwrap on None")
    ELSE IF unwrap(self.y).num = 0 THEN identity(self)
    ELSE LET s == unwrap(tangent_slope(self))
         IN IF IsPanic(s) THEN s
            ELSE LET x1 == unwrap(self.x).num
                     y1 == unwrap(self.y).num
                     x3 == rem_euc(rem_euc(s.num * s.num, prime(self))
                                     - rem_euc(2 * x1, prime(self)), prime(self))
                     y3 == rem_euc(rem_euc(s.num * (x1 - x3), prime(self)) - y1,
                                   prime(self))
                 IN new(Some(FieldElement(x3, prime(self))),
                        Some(FieldElement(y3, prime(self))), self.a, self.b)

\* Mutant: when other is the Identity, other is returned instead of self.
add_returns_other(self, other) ==
    IF ~(self.a = other.a /\ self.b = other.b)
    THEN Panic("Points are not on the same curve")
    ELSE IF is_none(other.x) THEN other
    ELSE IF is_none(self.x) THEN other
    ELSE IF self.x # other.x THEN add_chord(self, other)
    ELSE IF eq(self, other) THEN add_tangent(self)
    ELSE identity(self)

\* impl Add for EllipticCurve.
add(self, other) ==
    IF ~(self.a = other.a /\ self.b = other.b)
    THEN Panic("Points are not on the same curve")
    ELSE IF is_none(other.x) THEN self
    ELSE IF is_none(self.x) THEN other
    ELSE IF self.x # other.x THEN add_chord(self, other)
    ELSE IF eq(self, other) THEN add_tangent(self)
    ELSE identity(self)

\* Mutant: current is added whatever the low bit of scalar is.
scalar_mul_body_always_add(st) ==
    LET added == add(st.result, st.current)
        doubled == add(st.current, st.current)
    IN IF IsPanic(added) THEN added
       ELSE IF IsPanic(doubled) THEN doubled
       ELSE [current |-> doubled, result |-> added, scalar |-> st.scalar \div 2]

\* Mutant: current is never doubled.
scalar_mul_body_no_double(st) ==
    LET added == IF st.scalar % 2 = 1 THEN add(st.result, st.current) ELSE st.result
    IN IF IsPanic(added) THEN added
       ELSE [current |-> st.current, result |-> added, scalar |-> st.scalar \div 2]

\* Mutant: current is added when the low bit of scalar is clear.
scalar_mul_body_inverted_bit(st) ==
    LET added == IF st.scalar % 2 = 0 THEN add(st.result, st.current) ELSE st.result
        doubled == add(st.current, st.current)
    IN IF IsPanic(added) THEN added
       ELSE IF IsPanic(doubled) THEN doubled
       ELSE [current |-> doubled, result |-> added, scalar |-> st.scalar \div 2]

\* One pass of the while loop of scalar_mul over its locals.
scalar_mul_body(st) ==
    LET added == IF st.scalar % 2 = 1 THEN add(st.result, st.current) ELSE st.result
        doubled == add(st.current, st.current)
    IN IF IsPanic(added) THEN added
       ELSE IF IsPanic(doubled) THEN doubled
       ELSE [current |-> doubled, result |-> added, scalar |-> st.scalar \div 2]

\* The locals of scalar_mul before the loop.
scalar_mul_entry(self, coefficient) ==
    [current |-> self, result |-> new(None, None, self.a, self.b), scalar |-> coefficient]

RECURSIVE scalar_mul_loop(_)
scalar_mul_loop(st) ==
    IF IsPanic(st) THEN st
    ELSE IF st.scalar > 0 THEN scalar_mul_loop(scalar_mul_body(st))
    ELSE st.result

scalar_mul(self, coefficient) == scalar_mul_loop(scalar_mul_entry(self, coefficient))

\* ------------------------------------------------------ curves and inputs
IsPrime(n) == n > 1 /\ \A d \in 2..(n - 1) : n % d # 0

FieldPrimes == {p \in 2..MaxPrime : IsPrime(p)}

\* The curve of test_on_curve and test_add, with the coordinates they use.
TestPrime == 223
TestCoords == {192, 105, 17, 56, 1, 193, 200, 119, 42, 99,
               47, 71, 117, 141, 143, 98, 76, 66, 170, 142, 60, 139}

Coords(p) == IF p = TestPrime THEN TestCoords ELSE 0..(p - 1)

\* The (a, b) pairs of the curves a run may be on.
CurveConstants ==
    {<<FieldElement(ca, p), FieldElement(cb, p)>> :
        <<p, ca, cb>> \in {t \in FieldPrimes \X (0..MaxPrime) \X (0..MaxPrime) :
                             t[2] < t[1] /\ t[3] < t[1]}}
    \cup {<<FieldElement(0, TestPrime), FieldElement(7, TestPrime)>>}

\* What a caller may pass as x or as y.
OptCoords(p) == {None} \cup {Some(FieldElement(c, p)) : c \in Coords(p)}

Finite(pt) == ~IsPanic(pt) /\ ~is_none(pt.x) /\ ~is_none(pt.y)
Identity(pt) == ~IsPanic(pt) /\ is_none(pt.x) /\ is_none(pt.y)

\* The points of the curve (ca, cb): the Identity and the Finite points on it.
CurvePoints(ca, cb) ==
    {EllipticCurve(None, None, ca, cb)} \cup
    {pt \in {EllipticCurve(Some(FieldElement(cx, ca.prime)),
                           Some(FieldElement(cy, ca.prime)), ca, cb) :
                <<cx, cy>> \in Coords(ca.prime) \X Coords(ca.prime)} : is_valid(pt)}

\* ------------------------------------------------------------------ state
VARIABLES
    a, b,                       \* the curve constants of the run
    pc,                         \* where the run stands
    argx, argy, made,           \* the last call of new and what it gave
    lhs, rhs, sum, rsum,        \* lhs, rhs, lhs + rhs, rhs + lhs
    self, coefficient,          \* scalar_mul: receiver and argument
    current, result, scalar,    \* scalar_mul: the locals of the loop
    iters,                      \* scalar_mul: passes of the loop so far
    parts,                      \* scalar_mul(k1) + scalar_mul(k2), with k1 and k2
    order, generator_point,     \* verification: subgroup order n and generator G
    point, z, r, s,             \* verification: public key, hash and signature
    u, v, u_point, v_point,     \* verification: z/s, r/s, u*G, v*P
    outcome                     \* verification: what the final assert_eq! did

ctorVars == <<argx, argy, made>>
addVars == <<lhs, rhs, sum, rsum>>
mulVars == <<self, coefficient, current, result, scalar, iters, parts>>
verVars == <<order, generator_point, point, z, r, s, u, v, u_point, v_point, outcome>>
vars == <<a, b, pc, ctorVars, addVars, mulVars, verVars>>

\* --------------------------------------------- construction and addition
Init ==
    /\ \E c \in CurveConstants : a = c[1] /\ b = c[2]
    /\ pc = "lhs"
    /\ argx = None /\ argy = None /\ made = None
    /\ lhs = None /\ rhs = None /\ sum = None /\ rsum = None
    /\ self = None /\ coefficient = 0 /\ current = None /\ result = None
    /\ scalar = 0 /\ iters = 0 /\ parts = None
    /\ order = 0 /\ generator_point = None /\ point = None
    /\ z = None /\ r = None /\ s = None /\ u = None /\ v = None
    /\ u_point = None /\ v_point = None /\ outcome = None

\* let point_a = EllipticCurve::new(x, y, a, b); a panic yields no point and ends the run.
ConstructLhs ==
    /\ pc = "lhs"
    /\ \E x \in OptCoords(a.prime), y \in OptCoords(a.prime) :
          /\ argx' = x /\ argy' = y
          /\ made' = new(x, y, a, b)
          /\ IF IsPanic(new(x, y, a, b))
             THEN lhs' = lhs /\ pc' = "panicked"
             ELSE lhs' = new(x, y, a, b) /\ pc' = "rhs"
    /\ UNCHANGED <<a, b, rhs, sum, rsum, mulVars, verVars>>

ConstructRhs ==
    /\ pc = "rhs"
    /\ \E x \in OptCoords(a.prime), y \in OptCoords(a.prime) :
          /\ argx' = x /\ argy' = y
          /\ made' = new(x, y, a, b)
          /\ IF IsPanic(new(x, y, a, b))
             THEN rhs' = rhs /\ pc' = "panicked"
             ELSE rhs' = new(x, y, a, b) /\ pc' = "add"
    /\ UNCHANGED <<a, b, lhs, sum, rsum, mulVars, verVars>>

\* let point_3 = point_a.clone() + point_b.clone();
Plus ==
    /\ pc = "add"
    /\ sum' = add(lhs, rhs)
    /\ pc' = IF IsPanic(add(lhs, rhs)) THEN "panicked" ELSE "radd"
    /\ UNCHANGED <<a, b, ctorVars, lhs, rhs, rsum, mulVars, verVars>>

\* point_b + point_a, the operands exchanged.
PlusSwapped ==
    /\ pc = "radd"
    /\ rsum' = add(rhs, lhs)
    /\ pc' = IF IsPanic(add(rhs, lhs)) THEN "panicked" ELSE "added"
    /\ UNCHANGED <<a, b, ctorVars, lhs, rhs, sum, mulVars, verVars>>

Next == ConstructLhs \/ ConstructRhs \/ Plus \/ PlusSwapped

Spec == Init /\ [][Next]_vars

\* ------------------------------------------- what the claims speak about
\* y^2 == x^3 + a*x + b (mod p), in plain integer arithmetic.
OnCurve(cx, cy) == (cy * cy - (cx * cx * cx + a.num * cx + b.num)) % a.prime = 0

FinitePoint(cx, cy) ==
    EllipticCurve(Some(FieldElement(cx, a.prime)), Some(FieldElement(cy, a.prime)), a, b)

IdentityPoint == EllipticCurve(None, None, a, b)

X(pt) == unwrap(pt.x).num
Y(pt) == unwrap(pt.y).num

\* A valid point of the run's curve: the Identity, or a Finite point on it.
ValidPoint(pt) ==
    \/ pt = IdentityPoint
    \/ /\ Finite(pt) /\ pt.a = a /\ pt.b = b
       /\ X(pt) \in 0..(a.prime - 1) /\ Y(pt) \in 0..(a.prime - 1)
       /\ OnCurve(X(pt), Y(pt))

BothPresent == ~is_none(argx) /\ ~is_none(argy)
BothAbsent == is_none(argx) /\ is_none(argy)
ExactlyOnePresent == is_none(argx) # is_none(argy)
Constructed == pc # "lhs"
OnTestCurve == a.prime = TestPrime /\ a.num = 0 /\ b.num = 7

\* C5: new with both coordinates present yields the point exactly when
\* y^2 == x^3 + a*x + b (mod p) and otherwise panics with "Point is not on the
\* curve", yielding no point; with both absent it yields the Identity. On
\* prime 223, a = 0, b = 7: (192,105), (17,56), (1,193) are accepted and
\* (200,119), (42,99) are rejected.
C5_ConstructOnCurve ==
    Constructed =>
        /\ BothPresent =>
              IF OnCurve(unwrap(argx).num, unwrap(argy).num)
              THEN made = EllipticCurve(argx, argy, a, b)
              ELSE made = Panic("Point is not on the curve") /\ pc = "panicked"
        /\ BothAbsent => made = IdentityPoint
        /\ (OnTestCurve /\ BothPresent) =>
              /\ <<unwrap(argx).num, unwrap(argy).num>>
                    \in {<<192, 105>>, <<17, 56>>, <<1, 193>>} => ~IsPanic(made)
              /\ <<unwrap(argx).num, unwrap(argy).num>>
                    \in {<<200, 119>>, <<42, 99>>} => IsPanic(made)

C5_Witness ==
    /\ OnTestCurve /\ pc = "panicked" /\ lhs = FinitePoint(192, 105)
    /\ argx = Some(FieldElement(200, TestPrime)) /\ argy = Some(FieldElement(119, TestPrime))
    /\ IsPanic(made)

\* C6: new with exactly one of x and y present is rejected: it yields no point.
C6_OneCoordinateRejected ==
    (Constructed /\ ExactlyOnePresent) => IsPanic(made)

\* C6, second half: no point with exactly one coordinate reaches addition.
C6_NoHalfPointAdded ==
    sum # None => (is_none(lhs.x) = is_none(lhs.y) /\ is_none(rhs.x) = is_none(rhs.y))

Added == pc \in {"radd", "added"}

\* The chord and tangent results of the group law, from a slope sl.
ChordResult(sl, x1, y1, x2) ==
    LET x3 == (sl * sl - x1 - x2) % a.prime
    IN FinitePoint(x3, (sl * (x1 - x3) - y1) % a.prime)

TangentResult(sl, x1, y1) ==
    LET x3 == (sl * sl - 2 * x1) % a.prime
    IN FinitePoint(x3, (sl * (x1 - x3) - y1) % a.prime)

\* sl = num / den in the field: the sl with sl * den == num (mod p).
IsQuotient(sl, num, den) == sl \in 0..(a.prime - 1) /\ (sl * den - num) % a.prime = 0
Quotients(num, den) == {sl \in 0..(a.prime - 1) : IsQuotient(sl, num, den)}

\* C2: the value + returns on valid points of one curve is that of the six-case
\* group law: the other operand when one is the Identity; the chord result for
\* x1 != x2; the Identity for equal points with y1 = 0; the tangent result for
\* equal points with y1 != 0; the Identity for x1 = x2 with y1 != y2; and on
\* prime 223, a = 0, b = 7 the three sums of test_add.
C2_GroupLaw ==
    (Added /\ ValidPoint(lhs) /\ ValidPoint(rhs)) =>
        /\ rhs = IdentityPoint => sum = lhs
        /\ lhs = IdentityPoint => sum = rhs
        /\ (Finite(lhs) /\ Finite(rhs)) =>
              /\ X(lhs) # X(rhs) =>
                    /\ Cardinality(Quotients(Y(rhs) - Y(lhs), X(rhs) - X(lhs))) = 1
                    /\ \A sl \in Quotients(Y(rhs) - Y(lhs), X(rhs) - X(lhs)) :
                          sum = ChordResult(sl, X(lhs), Y(lhs), X(rhs))
              /\ (lhs = rhs /\ Y(lhs) = 0) => sum = IdentityPoint
              /\ (lhs = rhs /\ Y(lhs) # 0) =>
                    /\ Cardinality(Quotients(3 * X(lhs) * X(lhs) + a.num, 2 * Y(lhs))) = 1
                    /\ \A sl \in Quotients(3 * X(lhs) * X(lhs) + a.num, 2 * Y(lhs)) :
                          sum = TangentResult(sl, X(lhs), Y(lhs))
              /\ (X(lhs) = X(rhs) /\ Y(lhs) # Y(rhs)) => sum = IdentityPoint
        /\ OnTestCurve =>
              /\ (lhs = FinitePoint(192, 105) /\ rhs = FinitePoint(17, 56))
                    => sum = FinitePoint(170, 142)
              /\ (lhs = FinitePoint(47, 71) /\ rhs = FinitePoint(117, 141))
                    => sum = FinitePoint(60, 139)
              /\ (lhs = FinitePoint(143, 98) /\ rhs = FinitePoint(76, 66))
                    => sum = FinitePoint(47, 71)

C2_Witness ==
    /\ OnTestCurve /\ Added
    /\ lhs = FinitePoint(143, 98) /\ rhs = FinitePoint(76, 66)
    /\ sum = FinitePoint(47, 71)

\* C3: on valid points of one curve, P + Q == Q + P under the equality that
\* compares x, y, a and b (either may be the Identity, P may be Q or -Q).
C3_Commutative ==
    (pc = "added" /\ ValidPoint(lhs) /\ ValidPoint(rhs)) => eq(sum, rsum)

C3_Witness ==
    /\ pc = "added" /\ Finite(lhs) /\ Finite(rhs) /\ X(lhs) # X(rhs)
    /\ Finite(sum) /\ eq(sum, rsum)

PlusDone == sum # None

\* The denominators + divides by are not zero, and the sum is a valid point.
AddTotalHere ==
    /\ (Finite(lhs) /\ Finite(rhs) /\ X(lhs) # X(rhs))
          => (X(rhs) - X(lhs)) % a.prime # 0
    /\ (Finite(lhs) /\ lhs = rhs /\ Y(lhs) # 0) => tangent_denominator(lhs) # 0
    /\ ~IsPanic(sum)
    /\ ValidPoint(sum)

\* C9: for every prime p, p = 2 and p = 3 included, all a and b and every pair
\* of valid points of one curve, + never divides by zero and never trips the
\* on-curve assertion: the sum is the Identity or a Finite point on the curve
\* with coordinates in [0, p).
C9_AddTotal ==
    (PlusDone /\ ValidPoint(lhs) /\ ValidPoint(rhs)) => AddTotalHere

\* C9 as amended: the same for every odd prime p.
C9_AddTotalOddPrime ==
    (PlusDone /\ ValidPoint(lhs) /\ ValidPoint(rhs) /\ a.prime # 2) => AddTotalHere

C9_Witness ==
    /\ PlusDone /\ a.prime = 3 /\ Finite(lhs) /\ lhs = rhs /\ Y(lhs) # 0
    /\ Finite(sum) /\ ValidPoint(sum)

\* ---------------------------------------------------------- scalar_mul
\* The small curves, each with all its points known.
SmallCurveConstants == {c \in CurveConstants : c[1].prime <= MaxMulPrime}

InitMul ==
    /\ \E c \in SmallCurveConstants : a = c[1] /\ b = c[2]
    /\ pc = "mul_call"
    /\ argx = None /\ argy = None /\ made = None
    /\ lhs = None /\ rhs = None /\ sum = None /\ rsum = None
    /\ self = None /\ coefficient = 0 /\ current = None /\ result = None
    /\ scalar = 0 /\ iters = 0 /\ parts = None
    /\ order = 0 /\ generator_point = None /\ point = None
    /\ z = None /\ r = None /\ s = None /\ u = None /\ v = None
    /\ u_point = None /\ v_point = None /\ outcome = None

\* point.scalar_mul(k): the caller's point lhs is borrowed as self and the
\* locals current, result and scalar are set up.
MulEnter ==
    /\ pc = "mul_call"
    /\ \E pt \in CurvePoints(a, b), k \in 0..MaxScalar :
          /\ lhs' = pt
          /\ self' = pt
          /\ coefficient' = k
          /\ current' = scalar_mul_entry(pt, k).current
          /\ result' = scalar_mul_entry(pt, k).result
          /\ scalar' = scalar_mul_entry(pt, k).scalar
    /\ iters' = 0
    /\ pc' = "mul_loop"
    /\ UNCHANGED <<a, b, ctorVars, rhs, sum, rsum, parts, verVars>>

\* One pass of while scalar > 0 { ... }; a panic inside ends the run.
MulPass ==
    /\ pc = "mul_loop"
    /\ scalar > 0
    /\ LET st == scalar_mul_body([current |-> current, result |-> result,
                                  scalar |-> scalar])
       IN IF IsPanic(st)
          THEN /\ result' = st
               /\ pc' = "panicked"
               /\ UNCHANGED <<current, scalar>>
          ELSE /\ current' = st.current
               /\ result' = st.result
               /\ scalar' = st.scalar
               /\ pc' = "mul_loop"
    /\ iters' = iters + 1
    /\ UNCHANGED <<a, b, ctorVars, addVars, self, coefficient, parts, verVars>>

\* The loop condition fails and result is returned.
MulReturn ==
    /\ pc = "mul_loop"
    /\ ~(scalar > 0)
    /\ pc' = "mul_ret"
    /\ UNCHANGED <<a, b, ctorVars, addVars, mulVars, verVars>>

\* point.scalar_mul(k1) + point.scalar_mul(k2) for a split k1 + k2 of the scalar.
MulSplit ==
    /\ pc = "mul_ret"
    /\ \E k1 \in 0..coefficient :
          LET k2 == coefficient - k1
              p1 == scalar_mul(self, k1)
              p2 == scalar_mul(self, k2)
          IN parts' = [k1 |-> k1, k2 |-> k2,
                       sum |-> IF IsPanic(p1) THEN p1
                               ELSE IF IsPanic(p2) THEN p2
                               ELSE add(p1, p2)]
    /\ pc' = "mul_split"
    /\ UNCHANGED <<a, b, ctorVars, addVars, self, coefficient, current, result,
                   scalar, iters, verVars>>

NextMul == MulEnter \/ MulPass \/ MulReturn \/ MulSplit

SpecMul == InitMul /\ [][NextMul]_vars

\* The discriminant of y^2 = x^3 + a*x + b; the curve is non-singular when it
\* is not zero in the field.
Discriminant == -16 * (4 * a.num * a.num * a.num + 27 * b.num * b.num)
NonSingular == Discriminant % a.prime # 0

\* P added to itself k times, starting from the Identity.
RECURSIVE RepeatedSum(_, _)
RepeatedSum(k, pt) ==
    IF k = 0 THEN IdentityPoint ELSE add(RepeatedSum(k - 1, pt), pt)

\* The number of binary digits of k.
RECURSIVE Pow2(_)
Pow2(n) == IF n = 0 THEN 1 ELSE 2 * Pow2(n - 1)
BitLength(k) == CHOOSE n \in 0..(k + 1) : k < Pow2(n) /\ (n = 0 \/ Pow2(n - 1) <= k)

Returned == pc \in {"mul_ret", "mul_split"}

\* C10: on a non-singular curve scalar_mul(k, P) is P added to itself k times
\* starting from the Identity (the Identity for k = 0, P for k = 1), the loop
\* makes exactly bit-length(k) passes, and the receiver is left as it was.
C10_DoubleAndAdd ==
    (Returned /\ NonSingular) =>
        /\ result = RepeatedSum(coefficient, self)
        /\ coefficient = 0 => result = IdentityPoint
        /\ coefficient = 1 => result = self
        /\ iters = BitLength(coefficient)
        /\ self = lhs

C10_Witness ==
    /\ pc = "mul_ret" /\ NonSingular /\ coefficient = 13 /\ iters = 4
    /\ Finite(self) /\ Finite(result) /\ result # self

\* C4: on a non-singular curve, for a valid point P and k1, k2 >= 0,
\* scalar_mul(k1 + k2, P) == scalar_mul(k1, P) + scalar_mul(k2, P).
C4_Distributes ==
    (pc = "mul_split" /\ NonSingular) => eq(result, parts.sum)

C4_Witness ==
    /\ pc = "mul_split" /\ NonSingular /\ parts.k1 = 5 /\ parts.k2 = 6
    /\ Finite(self) /\ Finite(result) /\ eq(result, parts.sum)

\* The number of points of the curve, the Identity included.
GroupOrder == Cardinality(CurvePoints(a, b))

\* The least k >= 1 with k * P the Identity (0 when none is found up to bound).
RECURSIVE OrderFrom(_, _, _, _)
OrderFrom(pt, acc, k, bound) ==
    IF IsPanic(acc) \/ k > bound THEN 0
    ELSE IF acc = IdentityPoint THEN k
    ELSE OrderFrom(pt, add(acc, pt), k + 1, bound)
PointOrder(pt) == OrderFrom(pt, pt, 1, 2 * a.prime + 2)

\* C8: on a non-singular curve with N points (the Identity included),
\* scalar_mul(N, P) is the Identity for every point P; and for G of prime
\* order n, scalar_mul(m*n, G) is the Identity for every m >= 0 while
\* scalar_mul(k, G) is Finite for 0 < k < n.
C8_CyclesAtOrder ==
    (Returned /\ NonSingular) =>
        /\ coefficient = GroupOrder => result = IdentityPoint
        /\ IsPrime(PointOrder(self)) =>
              /\ coefficient % PointOrder(self) = 0 => result = IdentityPoint
              /\ (0 < coefficient /\ coefficient < PointOrder(self)) => Finite(result)

C8_Witness ==
    /\ pc = "mul_ret" /\ NonSingular /\ Finite(self)
    /\ PointOrder(self) = 7 /\ GroupOrder = 7 /\ coefficient = 14
    /\ result = IdentityPoint

\* ------------------------------------------- signature verification
\* The primes p of the curves y^2 = x^3 + 7 over F_p that secp_point builds.
SecpPrimes == {p \in 2..MaxSecpPrime :
                 IsPrime(p) /\ (-16 * 27 * (7 % p) * (7 % p)) % p # 0}

InitVerify ==
    /\ \E p \in SecpPrimes : a = FieldElement(0, p) /\ b = FieldElement(7, p)
    /\ pc = "verify_inputs"
    /\ argx = None /\ argy = None /\ made = None
    /\ lhs = None /\ rhs = None /\ sum = None /\ rsum = None
    /\ self = None /\ coefficient = 0 /\ current = None /\ result = None
    /\ scalar = 0 /\ iters = 0 /\ parts = None
    /\ order = 0 /\ generator_point = None /\ point = None
    /\ z = None /\ r = None /\ s = None /\ u = None /\ v = None
    /\ u_point = None /\ v_point = None /\ outcome = None

\* The generators a curve offers: its Finite points of prime order.
Generators == {g \in CurvePoints(a, b) : Finite(g) /\ IsPrime(PointOrder(g))}

\* order, generator_point, point, z, r and s are set up: z, r and s are field
\* elements modulo the order, the public key is a point of the curve.
VerifyInputs ==
    /\ pc = "verify_inputs"
    /\ \E g \in Generators :
          /\ generator_point' = g
          /\ order' = PointOrder(g)
          /\ \E pk \in {q \in CurvePoints(a, b) : Finite(q)},
                zv \in 0..(PointOrder(g) - 1),
                rv \in 0..(PointOrder(g) - 1),
                sv \in 0..(PointOrder(g) - 1) :
                /\ point' = new(pk.x, pk.y, a, b)
                /\ z' = FieldElement(zv, PointOrder(g))
                /\ r' = FieldElement(rv, PointOrder(g))
                /\ s' = FieldElement(sv, PointOrder(g))
    /\ pc' = "verify_divide"
    /\ UNCHANGED <<a, b, ctorVars, addVars, mulVars, u, v, u_point, v_point, outcome>>

\* let u = z / s.clone(); let v = r.clone() / s;
VerifyDivide ==
    /\ pc = "verify_divide"
    /\ IF IsPanic(FeDiv(z, s))
       THEN /\ outcome' = FeDiv(z, s)
            /\ pc' = "panicked"
            /\ UNCHANGED <<u, v>>
       ELSE /\ u' = FeDiv(z, s)
            /\ v' = FeDiv(r, s)
            /\ pc' = "verify_multiply"
            /\ UNCHANGED outcome
    /\ UNCHANGED <<a, b, ctorVars, addVars, mulVars, order, generator_point, point,
                   z, r, s, u_point, v_point>>

\* let u_point = generator_point.scalar_mul(u.num());
\* let v_point = point.scalar_mul(v.num());
VerifyMultiply ==
    /\ pc = "verify_multiply"
    /\ u_point' = scalar_mul(generator_point, u.num)
    /\ v_point' = scalar_mul(point, v.num)
    /\ pc' = "verify_add"
    /\ UNCHANGED <<a, b, ctorVars, addVars, mulVars, order, generator_point, point,
                   z, r, s, u, v, outcome>>

\* let result = u_point + v_point;
VerifyAdd ==
    /\ pc = "verify_add"
    /\ result' = add(u_point, v_point)
    /\ pc' = "verify_assert"
    /\ UNCHANGED <<a, b, ctorVars, addVars, self, coefficient, current, scalar,
                   iters, parts, verVars>>

Passed == [passed |-> TRUE]

\* assert_eq!(result.x.unwrap().num(), r.num(), "Points should be equal");
VerifyAssert ==
    /\ pc = "verify_assert"
    /\ outcome' = IF is_none(result.x) THEN Panic("unwrap on None")
                  ELSE IF unwrap(result.x).num = r.num THEN Passed
                  ELSE Panic("Points should be equal")
    /\ pc' = IF ~is_none(result.x) /\ unwrap(result.x).num = r.num
             THEN "verified" ELSE "panicked"
    /\ UNCHANGED <<a, b, ctorVars, addVars, mulVars, order, generator_point, point,
                   z, r, s, u, v, u_point, v_point>>

NextVerify == VerifyInputs \/ VerifyDivide \/ VerifyMultiply \/ VerifyAdd \/ VerifyAssert

SpecVerify == InitVerify /\ [][NextVerify]_vars

\* (r, s) is the signature of hash z under secret e with nonce k:
\* P = e*G, r = (k*G).x mod n, s = (z + r*e)/k mod n, r != 0, s != 0.
HonestSignature(e, k) ==
    /\ point = scalar_mul(generator_point, e)
    /\ Finite(scalar_mul(generator_point, k))
    /\ r.num = X(scalar_mul(generator_point, k)) % order
    /\ (s.num * k - (z.num + r.num * e)) % order = 0
    /\ r.num # 0 /\ s.num # 0

Honest == \E e \in 1..(order - 1), k \in 1..(order - 1) : HonestSignature(e, k)

Asserted == outcome # None /\ result # None

\* For an honest signature R = u*G + v*P is Finite and R.x mod n equals r.
C1_EquationHolds ==
    (Asserted /\ Honest) => (Finite(result) /\ X(result) % order = r.num)

\* C1: verification accepts every honestly produced signature: R is Finite,
\* R.x reduced into [0, n) equals r, and the signature is reported valid if
\* and only if that equality holds.
C1_AcceptsHonest ==
    (Asserted /\ Honest) =>
        /\ Finite(result)
        /\ X(result) % order = r.num
        /\ (outcome = Passed) <=> (X(result) % order = r.num)

\* C7: a signature with r == 0 or s == 0 (mod n) is rejected as malformed
\* before any division or scalar multiplication, an outcome distinct from
\* that of an invalid signature.
C7_MalformedRejected ==
    (pc # "verify_inputs" /\ (r.num = 0 \/ s.num = 0)) =>
        /\ u = None /\ v = None /\ u_point = None /\ v_point = None
        /\ pc \in {"panicked", "verified"} => outcome = Panic("MalformedSignature")

====
